---- MODULE Spec2Model ----
(***************************************************************************)
(* Model of samthor/promises (index.js): makeSingle and group, on top of   *)
(* a model of the host's promises: promise records with reaction lists     *)
(* and a FIFO microtask queue (ECMAScript PromiseReactionJob and           *)
(* NewPromiseResolveThenableJob).                                          *)
(*                                                                         *)
(* A JavaScript value is a pair <<kind, n>>; a promise used as a value is  *)
(* <<"promise", id>>, id being its index in the heap `proms`.              *)
(***************************************************************************)
EXTENDS Integers, Sequences, FiniteSets, TLC

VARIABLES
  proms,            \* heap of promises: Seq of [st, val, lk, rx]
  mq,               \* microtask queue: Seq of jobs
  gen,              \* makeSingle: the generator, as the sequence of the kinds of value it yields
  inv,              \* makeSingle: the invocations of the returned async function, in call order
  previousPromise,  \* makeSingle: closure variable (0 = undefined)
  previousResolve,  \* makeSingle: closure variable (0 = noop, else the promise it resolves)
  count,            \* group: closure variable
  p,                \* group: closure variable (0 = null)
  resolve,          \* group: closure variable (0 = null, else the promise it resolves)
  cbThrows,         \* group: the arguments on which the caller's callback throws
  cbLog,            \* group: the arguments the callback was invoked with, in order
  added,            \* group: history of addTask(task) calls: [task, barrier]
  lastCall,         \* group: outcome of the latest call of the returned function
  decLog,           \* group: history of the runs of dec that reached count 0
  dp,               \* dedup: closure variable p (0 = null)
  lastArguments,    \* dedup: closure variable (0 = undefined)
  fnMode,           \* dedup: what the caller's fn does when invoked
  delays,           \* dedup: the promises returned by delayer(), in call order
  dcalls,           \* dedup: history of the calls of the deduped function: [arg, ret, e]
  fnLog             \* dedup: history of the invocations of fn: [arg, d]

vars == <<proms, mq, gen, inv, previousPromise, previousResolve,
          count, p, resolve, cbThrows, cbLog, added, lastCall, decLog,
          dp, lastArguments, fnMode, delays, dcalls, fnLog>>

singleVars == <<gen, inv, previousPromise, previousResolve>>
groupVars == <<count, p, resolve, cbThrows, cbLog, added, lastCall, decLog>>
dedupVars == <<dp, lastArguments, fnMode, delays, dcalls, fnLog>>

----------------------------------------------------------------------------
(* Bounds *)
MaxCalls == 2       \* invocations of the single-flight runner
MaxYields == 2      \* yields of the generator
MaxAdds == 3        \* calls of the wait group's function
MaxDedup == 3       \* calls of the deduped function

Args == {1, 2}      \* arguments a caller passes to the runner
TaskIds == 1..2     \* the task promises a caller hands to the wait group (heap entries)

----------------------------------------------------------------------------
(* Values *)
Undef == <<"undefined", 0>>
abortSymbol == <<"abortSymbol", 0>>
takeoverSymbol == <<"takeoverSymbol", 0>>
ReferenceError == <<"ReferenceError", 0>>
NegCountError == <<"TypeError", 1>>
CreationError == <<"TypeError", 2>>
CallbackError == <<"CallbackError", 0>>
NoValue == <<"none", 0>>

IsPromise(v) == v[1] = "promise"

----------------------------------------------------------------------------
(* The host's promises *)

PendingPromise == [st |-> "pending", val |-> Undef, lk |-> FALSE, rx |-> <<>>]
SettledPromise(st, v) == [st |-> st, val |-> v, lk |-> TRUE, rx |-> <<>>]

\* reaction handlers
SettleH(id) == [h |-> "settle", a |-> id]   \* the resolving functions of promise id
AwaitH(i) == [h |-> "await", a |-> i]       \* the continuation of invocation i after its await
CatchH(id) == [h |-> "catch", a |-> id]     \* .catch(resolveWithError), result promise id
DecH(id) == [h |-> "dec", a |-> id]         \* .then(dec), result promise id
DedupH(id) == [h |-> "dedup", a |-> id]     \* delayer().then(() => ...), result promise id

ReactionJob(hd, st, v) == [j |-> "react", h |-> hd, st |-> st, val |-> v]
ThenableJob(id, v) == [j |-> "thenable", h |-> SettleH(id), st |-> "pending", val |-> v]

\* new Promise(...): the new promise is Len(H.ps) + 1
Alloc(H) == [H EXCEPT !.ps = Append(@, PendingPromise)]

\* FulfillPromise / RejectPromise: settle and queue the registered reactions in order
Settle(H, id, st, v) ==
  IF H.ps[id].st # "pending" THEN H
  ELSE [ps |-> [H.ps EXCEPT ![id] = SettledPromise(st, v)],
        q |-> H.q \o [k \in 1..Len(H.ps[id].rx) |-> ReactionJob(H.ps[id].rx[k], st, v)]]

\* a promise's resolve function: first call wins; a promise value is adopted in a later job
Resolve(H, id, v) ==
  IF H.ps[id].lk THEN H
  ELSE IF IsPromise(v)
  THEN [ps |-> [H.ps EXCEPT ![id].lk = TRUE], q |-> Append(H.q, ThenableJob(id, v))]
  ELSE Settle(H, id, "fulfilled", v)

\* PerformPromiseThen
Then(H, id, hd) ==
  IF H.ps[id].st = "pending"
  THEN [H EXCEPT !.ps[id].rx = Append(@, hd)]
  ELSE [H EXCEPT !.q = Append(@, ReactionJob(hd, H.ps[id].st, H.ps[id].val))]

\* Promise.race([a, b]) of two native promises; the race promise is Len(H.ps) + 1
PromiseRace(H, a, b) ==
  LET rc == Len(H.ps) + 1
  IN Then(Then(Alloc(H), a, SettleH(rc)), b, SettleH(rc))

\* index.js resolvable(): the promise and its resolve handle are both Len(H.ps) + 1
resolvable(H) == Alloc(H)

\* index.js toPromise(t): an async function returning t; its promise is Len(H.ps) + 1
toPromise(H, t) == Resolve(Alloc(H), Len(H.ps) + 1, t)

Heap == [ps |-> proms, q |-> mq]

----------------------------------------------------------------------------
(* makeSingle *)

YieldKinds == {"plain", "resolved", "rejected", "pending"}
Generators == UNION {[1..n -> YieldKinds] : n \in 0..MaxYields}

\* the promise yielded at the k-th yield is heap entry k (shared by all invocations)
ExtPromise(kind, k) ==
  CASE kind = "resolved" -> SettledPromise("fulfilled", <<"val", k>>)
    [] kind = "rejected" -> SettledPromise("rejected", <<"err", k>>)
    [] OTHER -> PendingPromise

\* what the generator yields at its k-th yield
Yielded(k) == IF gen[k] = "plain" THEN <<"val", k>> ELSE <<"promise", k>>

\* the generator's return value, computed from the call's arguments
Final(arg) == <<"ret", arg>>

\* is the value v a plain value or an already settled promise in heap H
IsSettledValue(H, v) == IF IsPromise(v) THEN H.ps[v[2]].st # "pending" ELSE TRUE

NewInvocation(arg, local, res, early) ==
  [arg |-> arg, local |-> local, res |-> res, pos |-> 0, nsteps |-> 0, tp |-> 0,
   st |-> "run", rv |-> Undef, early |-> early, abAt |-> 0, tied |-> FALSE]

\* previousResolve(abortSymbol)
AbortPrevious_none(H, pr) == H

AbortPrevious(H, pr) == IF pr = 0 THEN H ELSE Resolve(H, pr, abortSymbol)

\* one turn of the for(;;) loop of invocation i, up to its return or its await
Step(H, i, r, resumeValue) ==
  IF r.pos = Len(gen)
  THEN [H |-> Resolve(H, r.res, Final(r.arg)),
        r |-> [r EXCEPT !.st = "done", !.nsteps = @ + 1, !.rv = resumeValue]]
  ELSE LET k == r.pos + 1
           tp == Len(H.ps) + 1
           H1 == toPromise(H, Yielded(k))
           rc == Len(H1.ps) + 1
           H2 == PromiseRace(H1, tp, r.local)
       IN [H |-> Then(H2, rc, AwaitH(i)),
           r |-> [r EXCEPT !.st = "await", !.pos = k, !.nsteps = @ + 1, !.rv = resumeValue,
                           !.tp = tp,
                           !.tied = @ \/ (H.ps[r.local].st # "pending"
                                          /\ IsSettledValue(H, Yielded(k)))]]

\* the continuation of `resumeValue = await Promise.race(...)` of invocation i
Resumed_ignore_failure(H, i, r, st, v) ==
  IF v = abortSymbol
  THEN [H |-> Resolve(H, r.res, takeoverSymbol), r |-> [r EXCEPT !.st = "done"]]
  ELSE Step(H, i, r, v)

Resumed_no_abort_check(H, i, r, st, v) ==
  IF st = "rejected"
  THEN [H |-> Settle(H, r.res, "rejected", v), r |-> [r EXCEPT !.st = "done"]]
  ELSE Step(H, i, r, v)

Resumed(H, i, r, st, v) ==
  IF st = "rejected"
  THEN [H |-> Settle(H, r.res, "rejected", v), r |-> [r EXCEPT !.st = "done"]]
  ELSE IF v = abortSymbol
  THEN [H |-> Resolve(H, r.res, takeoverSymbol), r |-> [r EXCEPT !.st = "done"]]
  ELSE Step(H, i, r, v)

\* the invocation aborted by a new call was waiting on a promise that is still pending
WaitsOnPending(r) ==
  /\ r.st = "await"
  /\ gen[r.pos] # "plain"
  /\ proms[r.pos].st = "pending"

\* a call of the async function returned by makeSingle, up to its first await or return
Single(arg) ==
  /\ Len(inv) < MaxCalls
  \* consecutive calls pass different arguments, so that their return values differ
  /\ Len(inv) > 0 => arg # inv[Len(inv)].arg
  /\ LET H1 == AbortPrevious(Heap, previousResolve)
         local == Len(H1.ps) + 1
         H2 == resolvable(H1)
         res == Len(H2.ps) + 1
         i == Len(inv) + 1
         early == \A j \in 1..Len(inv) : inv[j].st = "await" /\ inv[j].nsteps = 1
         S == Step(Alloc(H2), i, NewInvocation(arg, local, res, early), Undef)
         older == [j \in 1..Len(inv) |->
                     IF j = Len(inv) /\ WaitsOnPending(inv[j])
                     THEN [inv[j] EXCEPT !.abAt = inv[j].nsteps] ELSE inv[j]]
     IN /\ proms' = S.H.ps
        /\ mq' = S.H.q
        /\ inv' = Append(older, S.r)
        /\ previousPromise' = local
        /\ previousResolve' = local
  /\ UNCHANGED <<gen>>
  /\ UNCHANGED groupVars
  /\ UNCHANGED dedupVars

\* the job that resumes an invocation after its await
RunAwait ==
  /\ mq # <<>>
  /\ Head(mq).h.h = "await"
  /\ LET job == Head(mq)
         i == job.h.a
         S == Resumed([ps |-> proms, q |-> Tail(mq)], i, inv[i], job.st, job.val)
     IN /\ proms' = S.H.ps
        /\ mq' = S.H.q
        /\ inv' = [inv EXCEPT ![i] = S.r]
  /\ UNCHANGED <<gen, previousPromise, previousResolve>>
  /\ UNCHANGED groupVars
  /\ UNCHANGED dedupVars

\* the caller settles the pending promise that the generator yields at yield k
SettleYielded(k, st) ==
  /\ k \in 1..Len(gen)
  /\ gen[k] = "pending"
  /\ proms[k].st = "pending"
  /\ LET H == Settle(Heap, k, st, IF st = "fulfilled" THEN <<"val", k>> ELSE <<"err", k>>)
     IN proms' = H.ps /\ mq' = H.q
  /\ UNCHANGED singleVars
  /\ UNCHANGED groupVars
  /\ UNCHANGED dedupVars

----------------------------------------------------------------------------
(* Jobs of the host's promises, shared by all components *)

\* NewPromiseResolveThenableJob: thenable.then(resolve, reject)
RunThenable ==
  /\ mq # <<>>
  /\ Head(mq).j = "thenable"
  /\ LET job == Head(mq)
         H == Then([ps |-> proms, q |-> Tail(mq)], job.val[2], job.h)
     IN proms' = H.ps /\ mq' = H.q
  /\ UNCHANGED singleVars
  /\ UNCHANGED groupVars
  /\ UNCHANGED dedupVars

\* PromiseReactionJob whose handler is a promise's resolve / reject function
RunSettle ==
  /\ mq # <<>>
  /\ Head(mq).j = "react"
  /\ Head(mq).h.h = "settle"
  /\ LET job == Head(mq)
         H == Settle([ps |-> proms, q |-> Tail(mq)], job.h.a, job.st, job.val)
     IN proms' = H.ps /\ mq' = H.q
  /\ UNCHANGED singleVars
  /\ UNCHANGED groupVars
  /\ UNCHANGED dedupVars

----------------------------------------------------------------------------
(* Specification of makeSingle *)

GroupIdle ==
  /\ count = 0
  /\ p = 0
  /\ resolve = 0
  /\ cbThrows = {}
  /\ cbLog = <<>>
  /\ added = <<>>
  /\ lastCall = [n |-> 0, ret |-> 0, exc |-> NoValue]
  /\ decLog = <<>>

DedupIdle ==
  /\ dp = 0
  /\ lastArguments = 0
  /\ fnMode = "return"
  /\ delays = <<>>
  /\ dcalls = <<>>
  /\ fnLog = <<>>

InitSingle ==
  /\ gen \in Generators
  /\ proms = [k \in 1..MaxYields |-> IF k <= Len(gen) THEN ExtPromise(gen[k], k) ELSE PendingPromise]
  /\ mq = <<>>
  /\ inv = <<>>
  /\ previousPromise = 0
  /\ previousResolve = 0
  /\ GroupIdle
  /\ DedupIdle

NextSingle ==
  \/ \E arg \in Args : Single(arg)
  \/ \E k \in 1..MaxYields, st \in {"fulfilled", "rejected"} : SettleYielded(k, st)
  \/ RunThenable
  \/ RunSettle
  \/ RunAwait

SpecSingle == InitSingle /\ [][NextSingle]_vars

----------------------------------------------------------------------------
(* group *)

\* what a caller may pass to the returned function: nothing, a plain value, or a task promise
\* (task promise k is heap entry k)
TaskArgs == {Undef, <<"val", 0>>} \cup {<<"promise", k>> : k \in TaskIds}

\* callback(arg): the exception it throws, NoValue if it returns
callback(arg) == IF arg \in cbThrows THEN CallbackError ELSE NoValue

\* resolveWithError(err): `currentResolve` is not declared anywhere, so evaluating the callee
\* throws a ReferenceError before Promise.reject(err) is built
resolveWithError(H, err) == [H |-> H, exc |-> ReferenceError]

\* dec: `else if (count > 0) return`
NothingToDo_never(c) == FALSE

NothingToDo(c) == c > 0

\* the promises as they are when dec invokes callback(false): the `try { callback(false) }`
\* statement precedes `resolve()`
AtCallback_resolved(H) == IF resolve = 0 THEN H ELSE Resolve(H, resolve, Undef)

AtCallback(H) == H

\* dec(): the state after it and the exception it throws (NoValue if it returns);
\* `seen` is the state of the barrier at the time callback(false) is invoked
dec(H) ==
  LET c == count - 1
      base == [H |-> H, count |-> c, p |-> p, resolve |-> resolve, cbLog |-> cbLog,
               exc |-> NoValue, zero |-> FALSE, seen |-> "none"]
  IN IF c < 0 THEN [base EXCEPT !.exc = NegCountError]
     ELSE IF NothingToDo(c) THEN base
     ELSE LET e == callback(FALSE)
              R == IF e = NoValue THEN [H |-> H, exc |-> NoValue] ELSE resolveWithError(H, e)
              z == [base EXCEPT !.cbLog = Append(cbLog, FALSE), !.zero = TRUE,
                                !.seen = IF p = 0 THEN "none" ELSE AtCallback(H).ps[p].st]
          IN IF R.exc # NoValue THEN [z EXCEPT !.H = R.H, !.exc = R.exc]
             ELSE IF resolve = 0 THEN [z EXCEPT !.H = R.H, !.exc = <<"TypeError", 3>>]
             ELSE [z EXCEPT !.H = Resolve(R.H, resolve, Undef), !.p = 0, !.resolve = 0]

\* the function returned by group(), called without a task (or with undefined)
AddNone ==
  /\ lastCall.n < MaxAdds
  /\ IF p = 0
     THEN LET H == Settle(Alloc(Heap), Len(proms) + 1, "fulfilled", Undef)
          IN /\ proms' = H.ps
             /\ mq' = H.q
             /\ lastCall' = [n |-> lastCall.n + 1, ret |-> Len(proms) + 1, exc |-> NoValue]
     ELSE /\ lastCall' = [n |-> lastCall.n + 1, ret |-> p, exc |-> NoValue]
          /\ UNCHANGED <<proms, mq>>
  /\ UNCHANGED <<count, p, resolve, cbThrows, cbLog, added, decLog>>
  /\ UNCHANGED singleVars
  /\ UNCHANGED dedupVars

\* `promiseWasNull && callback(true)` is performed last, so the task is tracked whatever
\* exception e the callback throws
Tracked_unless_thrown(e) == e = NoValue

Tracked(e) == TRUE

\* the function returned by group(), called with a task
AddTask(task) ==
  /\ lastCall.n < MaxAdds
  /\ task # Undef
  /\ LET promiseWasNull == (p = 0)
         H1 == IF promiseWasNull THEN resolvable(Heap) ELSE Heap
         p1 == IF promiseWasNull THEN Len(proms) + 1 ELSE p
         resolve1 == IF promiseWasNull THEN Len(proms) + 1 ELSE resolve
     IN IF promiseWasNull /\ count # 0
        THEN /\ proms' = H1.ps
             /\ mq' = H1.q
             /\ p' = p1
             /\ resolve' = resolve1
             /\ lastCall' = [n |-> lastCall.n + 1, ret |-> 0, exc |-> CreationError]
             /\ UNCHANGED <<count, cbLog, added>>
        ELSE LET tp == Len(H1.ps) + 1
                 H2 == toPromise(H1, task)
                 d1 == Len(H2.ps) + 1
                 H3 == Then(Alloc(H2), tp, CatchH(d1))
                 d2 == Len(H3.ps) + 1
                 H4 == Then(Alloc(H3), d1, DecH(d2))
                 e == IF promiseWasNull THEN callback(TRUE) ELSE NoValue
             IN /\ proms' = IF Tracked(e) THEN H4.ps ELSE H1.ps
                /\ mq' = IF Tracked(e) THEN H4.q ELSE H1.q
                /\ p' = p1
                /\ resolve' = resolve1
                /\ count' = IF Tracked(e) THEN count + 1 ELSE count
                /\ cbLog' = IF promiseWasNull THEN Append(cbLog, TRUE) ELSE cbLog
                /\ added' = IF Tracked(e) THEN Append(added, [task |-> task, barrier |-> p1])
                            ELSE added
                /\ lastCall' = [n |-> lastCall.n + 1,
                                ret |-> IF e = NoValue THEN p1 ELSE 0, exc |-> e]
  /\ UNCHANGED <<cbThrows, decLog>>
  /\ UNCHANGED singleVars
  /\ UNCHANGED dedupVars

\* the reaction job of toPromise(task).catch(resolveWithError)
RunCatch ==
  /\ mq # <<>>
  /\ Head(mq).h.h = "catch"
  /\ LET job == Head(mq)
         H0 == [ps |-> proms, q |-> Tail(mq)]
         R == resolveWithError(H0, job.val)
         H == IF job.st = "fulfilled" THEN Resolve(H0, job.h.a, job.val)
              ELSE IF R.exc # NoValue THEN Settle(R.H, job.h.a, "rejected", R.exc)
              ELSE Resolve(R.H, job.h.a, Undef)
     IN proms' = H.ps /\ mq' = H.q
  /\ UNCHANGED groupVars
  /\ UNCHANGED singleVars
  /\ UNCHANGED dedupVars

\* the reaction job of (...).then(dec)
RunDec ==
  /\ mq # <<>>
  /\ Head(mq).h.h = "dec"
  /\ LET job == Head(mq)
         H0 == [ps |-> proms, q |-> Tail(mq)]
         D == dec(H0)
     IN IF job.st = "rejected"
        THEN LET H == Settle(H0, job.h.a, "rejected", job.val)
             IN /\ proms' = H.ps
                /\ mq' = H.q
                /\ UNCHANGED <<count, p, resolve, cbLog, decLog>>
        ELSE LET H == IF D.exc # NoValue THEN Settle(D.H, job.h.a, "rejected", D.exc)
                      ELSE Resolve(D.H, job.h.a, Undef)
             IN /\ proms' = H.ps
                /\ mq' = H.q
                /\ count' = D.count
                /\ p' = D.p
                /\ resolve' = D.resolve
                /\ cbLog' = D.cbLog
                /\ decLog' = IF D.zero THEN Append(decLog, [barrier |-> p, exc |-> D.exc,
                                                                  seen |-> D.seen])
                             ELSE decLog
  /\ UNCHANGED <<cbThrows, added, lastCall>>
  /\ UNCHANGED singleVars
  /\ UNCHANGED dedupVars

\* the owner of task promise k settles it
SettleTask(k, st) ==
  /\ proms[k].st = "pending"
  /\ LET H == Settle(Heap, k, st, IF st = "fulfilled" THEN <<"val", k>> ELSE <<"err", k>>)
     IN proms' = H.ps /\ mq' = H.q
  /\ UNCHANGED groupVars
  /\ UNCHANGED singleVars
  /\ UNCHANGED dedupVars

----------------------------------------------------------------------------
(* Specification of group *)

SingleIdle ==
  /\ gen = <<>>
  /\ inv = <<>>
  /\ previousPromise = 0
  /\ previousResolve = 0

InitGroup ==
  /\ proms = [k \in TaskIds |-> PendingPromise]
  /\ mq = <<>>
  /\ count = 0
  /\ p = 0
  /\ resolve = 0
  /\ cbThrows \in SUBSET BOOLEAN
  /\ cbLog = <<>>
  /\ added = <<>>
  /\ lastCall = [n |-> 0, ret |-> 0, exc |-> NoValue]
  /\ decLog = <<>>
  /\ SingleIdle
  /\ DedupIdle

NextGroup ==
  \/ AddNone
  \/ \E task \in TaskArgs : AddTask(task)
  \/ \E k \in TaskIds, st \in {"fulfilled", "rejected"} : SettleTask(k, st)
  \/ RunThenable
  \/ RunSettle
  \/ RunCatch
  \/ RunDec

SpecGroup == InitGroup /\ [][NextGroup]_vars

----------------------------------------------------------------------------
(* dedup *)

FnModes == {"return", "throw", "async", "reenter"}

\* `lastArguments = args`
NoteArguments_first(la, arg) == IF la = 0 THEN arg ELSE la

NoteArguments(la, arg) == arg

\* `p = null` in the continuation of the delay
ClearPending_keep(d) == d

ClearPending(d) == 0

\* the closure state of a deduped function, with the heap and the histories
DedupState == [H |-> Heap, dp |-> dp, lastArguments |-> lastArguments,
               delays |-> delays, dcalls |-> dcalls]

\* a call of the function returned by dedup(fn, delayer); e is the number of the burst
deduped(S, arg, e) ==
  LET la == NoteArguments(S.lastArguments, arg)
  IN IF S.dp = 0
     THEN LET delay == Len(S.H.ps) + 1       \* the promise returned by delayer()
              d == delay + 1                 \* the promise returned by .then(...)
              H1 == Then(Alloc(Alloc(S.H)), delay, DedupH(d))
          IN [H |-> H1, dp |-> d, lastArguments |-> la,
              delays |-> Append(S.delays, delay),
              dcalls |-> Append(S.dcalls, [arg |-> arg, ret |-> d, e |-> e])]
     ELSE [S EXCEPT !.lastArguments = la,
                    !.dcalls = Append(@, [arg |-> arg, ret |-> S.dp, e |-> e])]

\* fn(...args) as called from the continuation of the delay, whose promise is d;
\* in mode "reenter" fn calls the deduped function itself, with argument arg2
fn(S, d, args, arg2) ==
  LET e == Len(fnLog) + 2     \* fn has started: a call from within it is of the next burst
  IN CASE args = 0 ->
            [S EXCEPT !.H = Settle(S.H, d, "rejected", <<"TypeError", 4>>)]
       [] args # 0 /\ fnMode = "throw" ->
            [S EXCEPT !.H = Settle(S.H, d, "rejected", <<"fnErr", args>>)]
       [] args # 0 /\ fnMode = "async" ->
            LET q == Len(S.H.ps) + 1
                H1 == Settle(Alloc(S.H), q, "fulfilled", <<"fn", args>>)
            IN [S EXCEPT !.H = Resolve(H1, d, <<"promise", q>>)]
       [] args # 0 /\ fnMode = "reenter" /\ Len(S.dcalls) < MaxDedup ->
            LET S1 == deduped(S, arg2, e)
            IN [S1 EXCEPT !.H = Resolve(S1.H, d, <<"fn", args>>)]
       [] OTHER ->
            [S EXCEPT !.H = Resolve(S.H, d, <<"fn", args>>)]

\* a caller calls the deduped function
DedupCall(arg) ==
  /\ Len(dcalls) < MaxDedup
  /\ LET S == deduped(DedupState, arg, Len(fnLog) + 1)
     IN /\ proms' = S.H.ps
        /\ mq' = S.H.q
        /\ dp' = S.dp
        /\ lastArguments' = S.lastArguments
        /\ delays' = S.delays
        /\ dcalls' = S.dcalls
  /\ UNCHANGED <<fnMode, fnLog>>
  /\ UNCHANGED singleVars
  /\ UNCHANGED groupVars

\* the reaction job of delayer().then(() => {...})
RunDedup ==
  /\ mq # <<>>
  /\ Head(mq).h.h = "dedup"
  /\ LET job == Head(mq)
         d == job.h.a
         H0 == [ps |-> proms, q |-> Tail(mq)]
     IN IF job.st = "rejected"
        THEN LET H == Settle(H0, d, "rejected", job.val)
             IN /\ proms' = H.ps
                /\ mq' = H.q
                /\ UNCHANGED <<dp, lastArguments, delays, dcalls, fnLog>>
        ELSE \E arg2 \in Args :
               LET args == lastArguments
                   S0 == [DedupState EXCEPT !.H = H0, !.dp = ClearPending(dp),
                                            !.lastArguments = 0]
                   S == fn(S0, d, args, arg2)
               IN /\ proms' = S.H.ps
                  /\ mq' = S.H.q
                  /\ dp' = S.dp
                  /\ lastArguments' = S.lastArguments
                  /\ delays' = S.delays
                  /\ dcalls' = S.dcalls
                  /\ fnLog' = Append(fnLog, [arg |-> args, d |-> d])
  /\ UNCHANGED <<fnMode>>
  /\ UNCHANGED singleVars
  /\ UNCHANGED groupVars

\* the delay of the n-th window elapses (or its promise fails)
SettleDelay(n, st) ==
  /\ n \in 1..Len(delays)
  /\ proms[delays[n]].st = "pending"
  /\ LET H == Settle(Heap, delays[n], st, IF st = "fulfilled" THEN Undef ELSE <<"err", n>>)
     IN proms' = H.ps /\ mq' = H.q
  /\ UNCHANGED dedupVars
  /\ UNCHANGED singleVars
  /\ UNCHANGED groupVars

----------------------------------------------------------------------------
(* Specification of dedup *)

InitDedup ==
  /\ proms = <<>>
  /\ mq = <<>>
  /\ dp = 0
  /\ lastArguments = 0
  /\ fnMode \in FnModes
  /\ delays = <<>>
  /\ dcalls = <<>>
  /\ fnLog = <<>>
  /\ SingleIdle
  /\ GroupIdle

NextDedup ==
  \/ \E arg \in Args : DedupCall(arg)
  \/ \E n \in 1..MaxDedup, st \in {"fulfilled", "rejected"} : SettleDelay(n, st)
  \/ RunDedup
  \/ RunThenable
  \/ RunSettle

SpecDedup == InitDedup /\ [][NextDedup]_vars

----------------------------------------------------------------------------
(* Properties of makeSingle *)

Invocations == 1..Len(inv)
Result(i) == proms[inv[i].res]
ResolvedTo(i, v) == Result(i).st = "fulfilled" /\ Result(i).val = v
FailedWith(i, v) == Result(i).st = "rejected" /\ Result(i).val = v
Quiescent == mq = <<>>
\* every awaitable the generator yields has succeeded
AllYieldsSucceeded == \A k \in 1..Len(gen) : gen[k] # "plain" => proms[k].st = "fulfilled"

\* C1: an invocation that is suspended on a still pending yielded awaitable when a newer
\* invocation starts resolves successfully to takeoverSymbol as soon as the queued jobs have
\* run (whether or not the awaitable has settled), its generator is never advanced again, and
\* once all yielded awaitables have succeeded the newest invocation has resolved to the
\* generator's return value for its own arguments.
C1_TakeoverOfPending ==
  /\ \A i \in Invocations : inv[i].abAt > 0 =>
       /\ inv[i].nsteps = inv[i].abAt
       /\ inv[i].st = "done" => ResolvedTo(i, takeoverSymbol)
       /\ Quiescent => inv[i].st = "done"
  /\ (Len(inv) >= 2 /\ Quiescent /\ AllYieldsSucceeded)
       => ResolvedTo(Len(inv), Final(inv[Len(inv)].arg))

C1_Witness ==
  /\ Len(inv) >= 2
  /\ inv[1].abAt > 0
  /\ ResolvedTo(1, takeoverSymbol)
  /\ inv[1].arg # inv[2].arg
  /\ inv[2].nsteps = 2
  /\ ResolvedTo(2, Final(inv[2].arg))

\* C2: when every invocation was started before any earlier invocation's first suspension
\* had resumed, every invocation but the last resolves to takeoverSymbol.
C2_AllButLastTakeover ==
  (\A j \in Invocations : inv[j].early) =>
     \A i \in 1..(Len(inv) - 1) : inv[i].st = "done" => ResolvedTo(i, takeoverSymbol)

\* C3: once a newer invocation has started, an older invocation never advances its generator
\* another step (and so never returns the generator's final value).
C3_OlderNeverAdvances ==
  [][\A i \in 1..(Len(inv) - 1) : inv'[i].nsteps = inv[i].nsteps]_vars

\* C4: an invocation that started a step race with both the yielded value and its abort
\* awaitable already settled returns takeoverSymbol.
C4_AbortWinsTie ==
  \A i \in Invocations : (inv[i].tied /\ inv[i].st = "done") => ResolvedTo(i, takeoverSymbol)

\* C5: an invocation fails only with the failure of the awaitable it is suspended on, and
\* only from a job, never within the call itself; the generator is never advanced past an
\* awaitable that failed; the newest invocation (never superseded) has failed with that
\* failure once the queued jobs have run; an invocation aborted while that awaitable was
\* still pending resolves to takeoverSymbol and does not fail.
C5_StepFailure ==
  /\ [](\A i \in Invocations :
        /\ Result(i).st = "rejected" =>
             /\ inv[i].st = "done"
             /\ inv[i].pos >= 1
             /\ gen[inv[i].pos] # "plain"
             /\ proms[inv[i].pos].st = "rejected"
             /\ Result(i).val = proms[inv[i].pos].val
        /\ \A k \in 1..(inv[i].pos - 1) : gen[k] # "plain" => proms[k].st = "fulfilled"
        /\ (i = Len(inv) /\ Quiescent /\ inv[i].pos >= 1 /\ gen[inv[i].pos] # "plain"
              /\ proms[inv[i].pos].st = "rejected")
             => FailedWith(i, proms[inv[i].pos].val)
        /\ inv[i].abAt > 0 => Result(i).st # "rejected")
  /\ [][Len(inv') > Len(inv) => proms'[inv'[Len(inv')].res].st # "rejected"]_vars

C5_Witness ==
  /\ Len(inv) >= 2
  /\ inv[1].abAt > 0
  /\ ResolvedTo(1, takeoverSymbol)
  /\ FailedWith(2, <<"err", inv[2].pos>>)
  /\ inv[2].nsteps = inv[2].pos

----------------------------------------------------------------------------
(* Properties of group *)

Adds == 1..Len(added)
TaskPending(n) == IsPromise(added[n].task) /\ proms[added[n].task[2]].st = "pending"
TaskFailed(n) == IsPromise(added[n].task) /\ proms[added[n].task[2]].st = "rejected"
Barrier(n) == proms[added[n].barrier]
\* the failures of the tasks that were added under the same barrier as the n-th task
FailuresOf(n) ==
  {proms[added[m].task[2]].val : m \in {m \in Adds : added[m].barrier = added[n].barrier
                                                     /\ TaskFailed(m)}}

\* C6: once the queued jobs have run, the barrier of a task that failed has failed with the
\* failure of one of the tasks added under it, whether or not other tasks are still pending.
C6_FirstFailureSettlesBarrier ==
  Quiescent =>
    \A n \in Adds : TaskFailed(n) =>
      Barrier(n).st = "rejected" /\ Barrier(n).val \in FailuresOf(n)

\* C7: with a callback that does not throw on false and tasks that do not fail, the barrier
\* returned for a task is pending while a task added under it is pending, and once the
\* queued jobs have run and every added task has completed, every barrier handed out has
\* resolved successfully and the group is empty; the same task may be added several times.
C7_BarrierWaitsForAll ==
  (FALSE \notin cbThrows /\ \A n \in Adds : ~TaskFailed(n)) =>
    /\ \A n \in Adds : TaskPending(n) =>
         \A m \in Adds : added[m].barrier = added[n].barrier => Barrier(m).st = "pending"
    /\ (Quiescent /\ \A n \in Adds : ~TaskPending(n)) =>
         /\ \A n \in Adds : Barrier(n).st = "fulfilled" /\ Barrier(n).val = Undef
         /\ count = 0

C7_Witness ==
  /\ FALSE \notin cbThrows
  /\ Quiescent
  /\ \E a, b, c \in Adds :
       /\ a < b /\ added[a].task = added[b].task /\ IsPromise(added[a].task)
       /\ IsPromise(added[c].task) /\ added[c].task # added[a].task
       /\ added[a].barrier = added[b].barrier /\ added[a].barrier = added[c].barrier
       /\ Barrier(a).st = "fulfilled"
  /\ count = 0

\* C8: with a callback that returns normally, once the queued jobs have run and every added
\* task has settled, by success or by failure, the count is zero, callback(false) was the
\* last callback, and the barrier state is cleared (so that a call without a task returns an
\* already resolved awaitable).
C8_FailedTaskDecrements ==
  (cbThrows = {} /\ Quiescent /\ added # <<>> /\ \A n \in Adds : ~TaskPending(n)) =>
    /\ count = 0
    /\ cbLog[Len(cbLog)] = FALSE
    /\ p = 0
    /\ resolve = 0

\* C9: the callback is invoked with true and false in strict alternation starting with true,
\* and the group is non-empty exactly when the latest invocation was with true.
C9_CallbackAlternates ==
  /\ \A n \in 1..Len(cbLog) : cbLog[n] = (n % 2 = 1)
  /\ (count > 0) = (Len(cbLog) % 2 = 1)

\* C10: when callback(false) throws, nothing is thrown out of dec, the barrier state is
\* cleared, and once the queued jobs have run the barrier of that period has failed with
\* the callback's exception.
C10_CallbackThrowCaptured ==
  FALSE \in cbThrows =>
    \A n \in 1..Len(decLog) :
      /\ decLog[n].exc = NoValue
      /\ p # decLog[n].barrier
      /\ Quiescent => /\ proms[decLog[n].barrier].st = "rejected"
                      /\ proms[decLog[n].barrier].val = CallbackError

\* a call of the function returned by group() happens in this step
Called == lastCall'.n > lastCall.n
\* ... and it is a call with a task
CalledWithTask == Called /\ Len(added') > Len(added)
\* the barriers of the occupancy periods that have drained
Drained == {decLog[n].barrier : n \in 1..Len(decLog)}

\* C11: a call made while the group is non-empty, with or without a task, returns the
\* current barrier and leaves it in place; a call with a task made on a group that has
\* drained to zero creates a new barrier, distinct from every drained one, and returns it
\* (unless callback(true) throws).
C11_SharedBarrier ==
  [][/\ (Called /\ count > 0) => (lastCall'.ret = p /\ p' = p /\ p # 0)
     /\ (CalledWithTask /\ count = 0) =>
          /\ p' = Len(proms) + 1
          /\ p' \notin Drained
          /\ lastCall'.exc = NoValue => lastCall'.ret = p']_vars

\* C12: a call without a task made while the group is empty returns an already resolved
\* awaitable and changes nothing: the count stays 0, there is no barrier, and the callback
\* is not invoked.
C12_EmptyGroupResolved ==
  [][(Called /\ ~CalledWithTask /\ count = 0) =>
       /\ lastCall'.exc = NoValue
       /\ proms'[lastCall'.ret].st = "fulfilled"
       /\ count' = 0
       /\ p' = 0
       /\ resolve' = 0
       /\ cbLog' = cbLog]_vars

----------------------------------------------------------------------------
(* Properties of dedup *)

DCalls == 1..Len(dcalls)
\* the bursts: burst e is the calls made after e - 1 invocations of fn had started
Bursts == {dcalls[a].e : a \in DCalls}
CallsOf(e) == {a \in DCalls : dcalls[a].e = e}
LastOf(e) == CHOOSE a \in CallsOf(e) : \A b \in CallsOf(e) : b <= a
FnResult(k) == proms[fnLog[k].d]

\* C13: the calls of one burst all return the same awaitable and the calls of different
\* bursts different ones; the delayer has been invoked once per burst; the k-th invocation
\* of fn is for the awaitable of the k-th burst, with the arguments of the last call of
\* that burst, and that awaitable settles to fn's result or failure; once the delay of a
\* burst has elapsed and the queued jobs have run, fn has been invoked for it.
C13_BurstCoalesced ==
  /\ \A a, b \in DCalls : (dcalls[a].e = dcalls[b].e) = (dcalls[a].ret = dcalls[b].ret)
  /\ Len(delays) = Cardinality(Bursts)
  /\ \A k \in 1..Len(fnLog) :
       /\ CallsOf(k) # {}
       /\ fnLog[k].d = dcalls[LastOf(k)].ret
       /\ fnLog[k].arg = dcalls[LastOf(k)].arg
       /\ FnResult(k).st = "rejected" => FnResult(k).val = <<"fnErr", fnLog[k].arg>>
       /\ FnResult(k).st = "fulfilled" => FnResult(k).val = <<"fn", fnLog[k].arg>>
       /\ Quiescent => FnResult(k).st = IF fnMode = "throw" THEN "rejected" ELSE "fulfilled"
  /\ \A n \in 1..Len(delays) :
       (Quiescent /\ proms[delays[n]].st = "fulfilled") => Len(fnLog) >= n

C13_Witness ==
  /\ Len(fnLog) = 1
  /\ Cardinality(CallsOf(1)) >= 2
  /\ \E a \in CallsOf(1) : dcalls[a].arg # fnLog[1].arg
  /\ FnResult(1).st = "fulfilled"
  /\ FnResult(1).val = <<"fn", dcalls[LastOf(1)].arg>>

\* C14: the coalescer holds a pending awaitable exactly when the latest call's awaitable
\* has not had its window elapse, and that is then the awaitable it holds; fn is invoked at
\* most once per window, in the order of the windows, and only with arguments supplied
\* after the previous invocation of fn had started; a call made after a window has elapsed
\* (also one made from within fn) returns a different awaitable than the calls before.
C14_OnePendingWindow ==
  LET Elapsed == {fnLog[k].d : k \in 1..Len(fnLog)}
  IN /\ dp # 0 => (dcalls # <<>> /\ dp = dcalls[Len(dcalls)].ret /\ dp \notin Elapsed)
     /\ dp = 0 => \A a \in DCalls : dcalls[a].ret \in Elapsed
     /\ Len(fnLog) <= Len(delays)
     /\ \A k \in 1..Len(fnLog) :
          /\ fnLog[k].d = delays[k] + 1
          /\ \E a \in DCalls : dcalls[a].e = k /\ dcalls[a].arg = fnLog[k].arg
          /\ \A j \in 1..Len(fnLog) : j # k => fnLog[j].d # fnLog[k].d
     /\ \A a, b \in DCalls : dcalls[a].e < dcalls[b].e => dcalls[a].ret # dcalls[b].ret

C14_Witness ==
  /\ Len(fnLog) = 2
  /\ fnLog[1].arg # fnLog[2].arg
  /\ fnLog[1].d # fnLog[2].d
  /\ dp = 0
  /\ Quiescent

\* C20: once the delay awaitable of the current window has settled, by success or by
\* failure, and the queued jobs have run, the coalescer's pending state is cleared.
C20_PendingCleared ==
  (Quiescent /\ delays # <<>> /\ proms[delays[Len(delays)]].st # "pending") => dp = 0

----------------------------------------------------------------------------
(* Further properties of group *)

\* C15: callback(false) of a transition to empty is invoked while the barrier of that period
\* is still pending, and a barrier is fulfilled only by a dec that has invoked callback(false)
\* and returned from it, so no reaction on the barrier runs before the callback was invoked.
C15_CallbackBeforeBarrier ==
  /\ \A n \in 1..Len(decLog) : decLog[n].seen = "pending"
  /\ \A a \in Adds : Barrier(a).st = "fulfilled" =>
        \E n \in 1..Len(decLog) : decLog[n].barrier = added[a].barrier /\ decLog[n].exc = NoValue
  /\ Len(decLog) = Cardinality({n \in 1..Len(cbLog) : cbLog[n] = FALSE})

C15_Witness ==
  \E n \in 1..Len(decLog) :
    /\ decLog[n].exc = NoValue
    /\ decLog[n].seen = "pending"
    /\ proms[decLog[n].barrier].st = "fulfilled"

\* the exceptions that have become visible: thrown at the last caller, thrown by a dec that
\* reached zero, or held by a settled promise
Raised ==
  {lastCall.exc} \cup {decLog[n].exc : n \in 1..Len(decLog)}
    \cup {proms[k].val : k \in {j \in 1..Len(proms) : proms[j].st = "rejected"}}

\* C16: whatever tasks are added and however they settle, count is never negative, and
\* neither 'got -ve count in group' nor 'expective +ve count for Promise creation' is raised.
C16_CountNeverNegative ==
  /\ count >= 0
  /\ NegCountError \notin Raised
  /\ CreationError \notin Raised
  /\ p = 0 => count = 0

\* a group that has drained once, has seen a task fail, and is occupied again
C16_Witness ==
  /\ decLog # <<>>
  /\ \E a \in Adds : TaskFailed(a) /\ Quiescent
  /\ count > 0
  /\ Len(added) = MaxAdds

----------------------------------------------------------------------------
(* Further properties of makeSingle *)

\* the promise of Promise.race([...]) that invocation i awaited last
Race(i) == proms[inv[i].tp + 1]
ObservedAbort(i) == inv[i].tp # 0 /\ Race(i).st = "fulfilled" /\ Race(i).val = abortSymbol
\* the promises that only makeSingle holds: the abort promises and the race promises
Private == {inv[i].local : i \in Invocations} \cup {inv[i].tp + 1 : i \in Invocations}

\* C17: the abort marker stays inside makeSingle: no returned awaitable settles to it, the
\* generator is never resumed with it, no promise other than the abort and race promises holds
\* it, and an invocation whose race yields the abort marker returns takeoverSymbol without
\* advancing its generator.
C17_AbortMarkerPrivate ==
  /\ \A i \in Invocations :
        /\ Result(i).val # abortSymbol
        /\ inv[i].rv # abortSymbol
        /\ (ObservedAbort(i) /\ inv[i].st = "done") => ResolvedTo(i, takeoverSymbol)
        /\ (ObservedAbort(i) /\ Quiescent) => (inv[i].st = "done" /\ inv[i].nsteps = inv[i].pos)
  /\ \A k \in 1..Len(proms) : proms[k].val = abortSymbol => k \in Private

C17_Witness ==
  \E i \in Invocations :
    /\ ObservedAbort(i)
    /\ inv[i].st = "done"
    /\ ResolvedTo(i, takeoverSymbol)
    /\ inv[i].rv # abortSymbol

----------------------------------------------------------------------------
(* Properties of group with a throwing callback *)

\* the tasks added under the barrier of the n-th task have all succeeded
PeriodSucceeded(n) ==
  \A m \in Adds : added[m].barrier = added[n].barrier => (~TaskPending(m) /\ ~TaskFailed(m))

\* C18: a call with a task whose callback(true) throws hands the exception to its caller, yet
\* the task is tracked: count is incremented, a new pending barrier and its resolve handle are
\* in place and the task is recorded under it; any later call made while that barrier is held
\* returns it; and (callback(false) returning) the barrier is fulfilled once the queued jobs
\* have run and the tasks added under it have succeeded.
C18_ThrowingCallbackTracked ==
  [][/\ (Called /\ lastCall'.exc = CallbackError) =>
          /\ p = 0 /\ count = 0
          /\ count' = 1
          /\ p' = Len(proms) + 1 /\ resolve' = p'
          /\ proms'[p'].st = "pending"
          /\ Len(added') = Len(added) + 1
          /\ added'[Len(added')].barrier = p'
     /\ (Called /\ p # 0) => (lastCall'.exc = NoValue /\ lastCall'.ret = p /\ p' = p)
     /\ (TRUE \in cbThrows /\ FALSE \notin cbThrows /\ Quiescent') =>
          \A n \in 1..Len(added') :
            PeriodSucceeded(n)' => (proms'[added'[n].barrier].st = "fulfilled")]_vars

\* callback(true) threw at the first call, a later call added a second task under the same
\* barrier, and the barrier has resolved
C18_Witness ==
  /\ cbThrows = {TRUE}
  /\ Len(added) >= 2
  /\ added[1].barrier = added[2].barrier
  /\ IsPromise(added[1].task)
  /\ Barrier(1).st = "fulfilled"
  /\ count = 0

\* C19: between any two operations of a group, whatever was added, however the tasks settled
\* and whether the callback returns or throws, a barrier and its resolve handle are held
\* exactly when count > 0.
C19_BarrierIffOccupied ==
  /\ (p # 0) <=> (count > 0)
  /\ (resolve # 0) <=> (count > 0)

====
